---- MODULE Spec2Model ----
(***************************************************************************)
(* Model of op-node/rollup/derive/engine_update.go: confirmPayload,        *)
(* getPayloadWithBuilderPayload (the builder race) and insertPayload,      *)
(* driven by an execution engine, a builder client, a sequencer conductor  *)
(* and an async gossip cache whose answers are chosen nondeterministically.*)
(***************************************************************************)
EXTENDS Integers, Sequences, FiniteSets, TLC

VARIABLES
    pc,              \* position of the task that runs confirmPayload
    ncalls,          \* number of confirmPayload calls started so far
    builderEnabled,  \* BuilderAPIConfig.Enabled
    updateSafe,      \* argument updateSafe of the running call
    cache,           \* the envelope held by the async gossiper (NilEnv: none)
    conductor,       \* envelopes the conductor accepted through CommitUnsafePayload
    lastFcu,         \* the last ForkchoiceUpdate the engine received, with its answer
    engineEnvelope,  \* local of confirmPayload
    builderEnvelope, \* local of confirmPayload
    cur,             \* which envelope the running insertPayload was called with
    trace,           \* external calls of the running confirmPayload call, in order
    ret,             \* what the last confirmPayload call returned
    prev,            \* summary of the confirmPayload call before the running one
    gpRet,           \* what getPayloadWithBuilderPayload returned in the running call
    bpc,             \* position of the builder goroutine
    ch,              \* the result channel (capacity 1)
    ctxDone,         \* state of ctxTimeout: "no", "timeout" or "cancel"
    engRes,          \* (envelope, err) of eng.GetPayload inside the race
    cache0,          \* what the gossip cache held when the running insertPayload began
    fc,              \* the running insertPayload call's own copy of the forkchoice state
    spIn,            \* startPayload: the engine's answer to ForkchoiceUpdate
    spOut,           \* startPayload: what it returned
    scTxs,           \* sanityCheckPayload: payload.Transactions
    scOut            \* sanityCheckPayload: what it returned

vars == <<pc, ncalls, builderEnabled, updateSafe, cache, conductor, lastFcu,
          engineEnvelope, builderEnvelope, cur, trace, ret, prev, gpRet,
          bpc, ch, ctxDone, engRes, cache0, fc, spIn, spOut, scTxs, scOut>>

\* the state of confirmPayload and its collaborators
mainVars == <<pc, ncalls, builderEnabled, updateSafe, cache, conductor, lastFcu,
              engineEnvelope, builderEnvelope, cur, trace, ret, prev, gpRet,
              bpc, ch, ctxDone, engRes, cache0, fc>>

\* the inputs and results of startPayload and sanityCheckPayload
pureVars == <<spIn, spOut, scTxs, scOut>>

\* ---------------------------------------------------------------- bounds
MaxCalls == 2

\* longest transaction list given to sanityCheckPayload on its own
MaxTxs == 3

\* ---------------------------------------------------------------- data
\* A transaction is "D" (deposit type byte), "N" (another type byte) or
\* "E" (zero length).
TxChoices == { <<"D", "N">>, <<>>, <<"E">>, <<"D", "N", "D">> }

NilEnv == [hash |-> "nil", txs |-> <<>>, root |-> "nil"]

EngineEnvelopes == { [hash |-> "hE", txs |-> t, root |-> "rE"] : t \in TxChoices }

BuilderEnvelopes == { [hash |-> "hB", txs |-> t, root |-> "nil"] : t \in TxChoices }

NoErr == [kind |-> "nil", hash |-> "-"]

Err(kind, hash) == [kind |-> kind, hash |-> hash]

\* the caller's forkchoice state
CallerFc == [head |-> "h0", safe |-> "s0", finalized |-> "f0"]

BlockInsertOK == "OK"
BlockInsertTemporaryErr == "TemporaryErr"
BlockInsertPrestateErr == "PrestateErr"
BlockInsertPayloadErr == "PayloadErr"

\* one external call (or return) of the running confirmPayload call
Ev(op, hash, res) == [op |-> op, hash |-> hash, res |-> res, err |-> NoErr]

RetEv(hash, errTyp, err) == [op |-> "InsertReturn", hash |-> hash, res |-> errTyp, err |-> err]

\* ---------------------------------------------------------------- validator
\* isDepositTx: (deposit, err)
isDepositTx(opaqueTx) ==
    IF opaqueTx = "E" THEN [deposit |-> FALSE, err |-> TRUE]
    ELSE [deposit |-> (opaqueTx = "D"), err |-> FALSE]

\* lastDeposit, with Go's 0-based indices: txns[i] is txns[i + 1] here.
RECURSIVE lastDepositFrom(_, _, _)
lastDepositFrom(txns, i, last) ==
    IF i >= Len(txns) THEN [idx |-> last, err |-> FALSE]
    ELSE LET r == isDepositTx(txns[i + 1]) IN
         IF r.err THEN [idx |-> 0, err |-> TRUE]
         ELSE IF r.deposit THEN lastDepositFrom(txns, i + 1, i)
         ELSE [idx |-> last, err |-> FALSE]

lastDeposit(txns) == lastDepositFrom(txns, 0, 0)

RECURSIVE noDepositFrom(_, _)
noDepositFrom(txns, i) ==
    IF i >= Len(txns) THEN "ok"
    ELSE LET r == isDepositTx(txns[i + 1]) IN
         IF r.err THEN "err"
         ELSE IF r.deposit THEN "err"
         ELSE noDepositFrom(txns, i + 1)

\* sanityCheckPayload: "ok", "err", or "panic" (payload.Transactions[0][0]
\* indexes a zero-length transaction).
sanityCheckPayload(txns) ==
    IF Len(txns) = 0 THEN "err"
    ELSE IF txns[1] = "E" THEN "panic"
    ELSE IF txns[1] # "D" THEN "err"
    ELSE LET ld == lastDeposit(txns) IN
         IF ld.err THEN "err"
         ELSE noDepositFrom(txns, ld.idx + 1)

\* ---------------------------------------------------------------- collaborators
\* The async gossiper: one slot, the last write wins.
Gossip(slot, envelope) == envelope

Clear(slot) == NilEnv

Get(slot) == slot

\* ---------------------------------------------------------------- insertPayload
\* answers of the collaborators
NewPayloadResponses == {"transport", "VALID", "INVALID", "INVALID_BLOCK_HASH", "SYNCING", "ACCEPTED"}

FcuResponses == {"transport", "InvalidForkchoiceState", "InvalidPayloadAttributes",
                 "VALID", "INVALID", "SYNCING"}

\* The running insertPayload call's envelope.
Envelope == IF cur = "builder" THEN builderEnvelope ELSE engineEnvelope

\* insertPayload after sanityCheckPayload returned r ("ok" or "err").
SanityStep(r, hash) ==
    IF r # "ok"
    THEN [done |-> TRUE, errTyp |-> BlockInsertPayloadErr, err |-> Err("sanity", hash)]
    ELSE [done |-> FALSE, errTyp |-> BlockInsertOK, err |-> NoErr]

\* CommitStep that begins gossip whatever the conductor answered.
CommitStepGossipAlways(ok, hash) ==
    IF ~ok
    THEN [done |-> TRUE, errTyp |-> BlockInsertTemporaryErr, err |-> Err("commit", hash),
          gossip |-> TRUE]
    ELSE [done |-> FALSE, errTyp |-> BlockInsertOK, err |-> NoErr, gossip |-> TRUE]

\* insertPayload after CommitUnsafePayload answered: gossip tells whether
\* agossip.Gossip(envelope) is called.
CommitStep(ok, hash) ==
    IF ~ok
    THEN [done |-> TRUE, errTyp |-> BlockInsertTemporaryErr, err |-> Err("commit", hash),
          gossip |-> FALSE]
    ELSE [done |-> FALSE, errTyp |-> BlockInsertOK, err |-> NoErr, gossip |-> TRUE]

\* NewPayloadStep that goes on to the forkchoice update on any status that is
\* not invalid.
NewPayloadStepUndecidedGoesOn(resp, hash) ==
    IF resp = "transport"
    THEN [done |-> TRUE, errTyp |-> BlockInsertTemporaryErr,
          err |-> Err("newpayload-transport", hash), clear |-> FALSE]
    ELSE IF resp = "INVALID" \/ resp = "INVALID_BLOCK_HASH"
    THEN [done |-> TRUE, errTyp |-> BlockInsertPayloadErr,
          err |-> Err("newpayload-" \o resp, hash), clear |-> TRUE]
    ELSE [done |-> FALSE, errTyp |-> BlockInsertOK, err |-> NoErr, clear |-> FALSE]

\* NewPayloadStep that clears the gossip cache on a transport failure too.
NewPayloadStepClearOnTransport(resp, hash) ==
    IF resp = "transport"
    THEN [done |-> TRUE, errTyp |-> BlockInsertTemporaryErr,
          err |-> Err("newpayload-transport", hash), clear |-> TRUE]
    ELSE IF resp = "INVALID" \/ resp = "INVALID_BLOCK_HASH"
    THEN [done |-> TRUE, errTyp |-> BlockInsertPayloadErr,
          err |-> Err("newpayload-" \o resp, hash), clear |-> TRUE]
    ELSE IF resp # "VALID"
    THEN [done |-> TRUE, errTyp |-> BlockInsertTemporaryErr,
          err |-> Err("newpayload-" \o resp, hash), clear |-> FALSE]
    ELSE [done |-> FALSE, errTyp |-> BlockInsertOK, err |-> NoErr, clear |-> FALSE]

\* NewPayloadStep that forgets the status invalid-block-hash.
NewPayloadStepOnlyInvalid(resp, hash) ==
    IF resp = "transport"
    THEN [done |-> TRUE, errTyp |-> BlockInsertTemporaryErr,
          err |-> Err("newpayload-transport", hash), clear |-> FALSE]
    ELSE IF resp = "INVALID"
    THEN [done |-> TRUE, errTyp |-> BlockInsertPayloadErr,
          err |-> Err("newpayload-" \o resp, hash), clear |-> TRUE]
    ELSE IF resp # "VALID"
    THEN [done |-> TRUE, errTyp |-> BlockInsertTemporaryErr,
          err |-> Err("newpayload-" \o resp, hash), clear |-> FALSE]
    ELSE [done |-> FALSE, errTyp |-> BlockInsertOK, err |-> NoErr, clear |-> FALSE]

\* insertPayload after eng.NewPayload answered: clear tells whether
\* agossip.Clear() is called, done whether insertPayload returns.
NewPayloadStep(resp, hash) ==
    IF resp = "transport"
    THEN [done |-> TRUE, errTyp |-> BlockInsertTemporaryErr,
          err |-> Err("newpayload-transport", hash), clear |-> FALSE]
    ELSE IF resp = "INVALID" \/ resp = "INVALID_BLOCK_HASH"
    THEN [done |-> TRUE, errTyp |-> BlockInsertPayloadErr,
          err |-> Err("newpayload-" \o resp, hash), clear |-> TRUE]
    ELSE IF resp # "VALID"
    THEN [done |-> TRUE, errTyp |-> BlockInsertTemporaryErr,
          err |-> Err("newpayload-" \o resp, hash), clear |-> FALSE]
    ELSE [done |-> FALSE, errTyp |-> BlockInsertOK, err |-> NoErr, clear |-> FALSE]

\* ArgFc that hands insertPayload the state the previous call left.
ArgFcShared(callerFc, left) == left

\* insertPayload's parameter fc: a copy of the caller's value, whatever an
\* earlier insertPayload call did to its own copy.
ArgFc(callerFc, left) == callerFc

\* PostFc that moves the safe hash whatever updateSafe says.
PostFcAlwaysSafe(f, blockHash, safe) ==
    [head |-> blockHash, safe |-> blockHash, finalized |-> f.finalized]

\* The forkchoice state of the second ForkchoiceUpdate.
PostFc(f, blockHash, safe) ==
    [head |-> blockHash,
     safe |-> IF safe THEN blockHash ELSE f.safe,
     finalized |-> f.finalized]

\* FcuStep that does not look at the status of the forkchoice result.
FcuStepAnyStatus(resp, hash) ==
    IF resp = "transport"
    THEN [errTyp |-> BlockInsertTemporaryErr, err |-> Err("fcu-transport", hash), clear |-> FALSE]
    ELSE IF resp = "InvalidForkchoiceState"
    THEN [errTyp |-> BlockInsertPayloadErr, err |-> Err("fcu-inconsistent", hash), clear |-> TRUE]
    ELSE IF resp = "InvalidPayloadAttributes"
    THEN [errTyp |-> BlockInsertPrestateErr, err |-> Err("fcu-unexpected-code", hash), clear |-> TRUE]
    ELSE [errTyp |-> BlockInsertOK, err |-> NoErr, clear |-> TRUE]

\* insertPayload after the second eng.ForkchoiceUpdate answered.
FcuStep(resp, hash) ==
    IF resp = "transport"
    THEN [errTyp |-> BlockInsertTemporaryErr, err |-> Err("fcu-transport", hash), clear |-> FALSE]
    ELSE IF resp = "InvalidForkchoiceState"
    THEN [errTyp |-> BlockInsertPayloadErr, err |-> Err("fcu-inconsistent", hash), clear |-> TRUE]
    ELSE IF resp = "InvalidPayloadAttributes"
    THEN [errTyp |-> BlockInsertPrestateErr, err |-> Err("fcu-unexpected-code", hash), clear |-> TRUE]
    ELSE IF resp # "VALID"
    THEN [errTyp |-> BlockInsertPayloadErr, err |-> Err("fcu-" \o resp, hash), clear |-> TRUE]
    ELSE [errTyp |-> BlockInsertOK, err |-> NoErr, clear |-> TRUE]

\* AfterInsert that returns the builder attempt's failure to the caller.
AfterInsertNoFallback(c, errTyp, err) ==
    IF c = "builder"
    THEN [next |-> "return", out |-> "builder", errTyp |-> errTyp, err |-> err]
    ELSE [next |-> "return", out |-> "engine", errTyp |-> errTyp, err |-> err]

\* confirmPayload after insertPayload returned (errTyp, err) for the
\* envelope named by c: "return" the envelope, or "fallback" to the engine's.
AfterInsert(c, errTyp, err) ==
    IF c = "builder"
    THEN IF err = NoErr
         THEN [next |-> "return", out |-> "builder", errTyp |-> errTyp, err |-> err]
         ELSE [next |-> "fallback", out |-> "engine", errTyp |-> errTyp, err |-> err]
    ELSE [next |-> "return", out |-> "engine", errTyp |-> errTyp, err |-> err]

\* insertPayload returns (errTyp, err) to confirmPayload after the calls evs.
InsertReturns(errTyp, err, evs) ==
    LET a == AfterInsert(cur, errTyp, err)
        tr == trace \o evs \o <<RetEv(Envelope.hash, errTyp, err)>>
    IN /\ trace' = tr
       /\ IF a.next = "fallback"
          THEN /\ pc' = "insert"
               /\ cur' = "engine"
               /\ ret' = ret
          ELSE /\ pc' = "returned"
               /\ cur' = cur
               /\ ret' = [out |-> IF a.out = "builder" THEN builderEnvelope ELSE engineEnvelope,
                          errTyp |-> a.errTyp, err |-> a.err]

raceVars == <<gpRet, bpc, ch, ctxDone, engRes>>
callVars == <<ncalls, builderEnabled, updateSafe, engineEnvelope, builderEnvelope, prev>>

\* insertPayload, lines 223-226: sanityCheckPayload.
InsertSanity ==
    /\ pc = "insert"
    /\ LET r == sanityCheckPayload(Envelope.txs)
           s == SanityStep(r, Envelope.hash)
       IN IF r = "panic"
          THEN /\ pc' = "crashed"
               /\ trace' = Append(trace, Ev("Sanity", Envelope.hash, r))
               /\ UNCHANGED <<cur, ret>>
          ELSE IF s.done
          THEN InsertReturns(s.errTyp, s.err, <<Ev("Sanity", Envelope.hash, r)>>)
          ELSE /\ pc' = "commit"
               /\ trace' = Append(trace, Ev("Sanity", Envelope.hash, r))
               /\ UNCHANGED <<cur, ret>>
    /\ cache0' = cache
    /\ fc' = ArgFc(CallerFc, fc)
    /\ UNCHANGED <<cache, conductor, lastFcu>>
    /\ UNCHANGED callVars
    /\ UNCHANGED raceVars
    /\ UNCHANGED pureVars

\* insertPayload, lines 227-232: CommitUnsafePayload, then Gossip.
InsertCommit(ok) ==
    /\ pc = "commit"
    /\ LET s == CommitStep(ok, Envelope.hash)
           ev == Ev("Commit", Envelope.hash, IF ok THEN "ok" ELSE "fail")
       IN /\ conductor' = IF ok THEN conductor \cup {Envelope} ELSE conductor
          /\ cache' = IF s.gossip THEN Gossip(cache, Envelope) ELSE cache
          /\ IF s.done
             THEN InsertReturns(s.errTyp, s.err,
                      <<ev>> \o (IF s.gossip THEN <<Ev("Gossip", Envelope.hash, "ok")>> ELSE <<>>))
             ELSE /\ pc' = "newpayload"
                  /\ trace' = trace \o <<ev>>
                         \o (IF s.gossip THEN <<Ev("Gossip", Envelope.hash, "ok")>> ELSE <<>>)
                  /\ UNCHANGED <<cur, ret>>
    /\ UNCHANGED <<lastFcu, cache0>>
    /\ UNCHANGED callVars
    /\ UNCHANGED raceVars
    /\ UNCHANGED fc
    /\ UNCHANGED pureVars

\* insertPayload, lines 234-244: eng.NewPayload.
InsertNewPayload(resp) ==
    /\ pc = "newpayload"
    /\ LET s == NewPayloadStep(resp, Envelope.hash)
           evs == <<Ev("NewPayload", Envelope.hash, resp)>>
                    \o (IF s.clear THEN <<Ev("Clear", Envelope.hash, "ok")>> ELSE <<>>)
       IN /\ cache' = IF s.clear THEN Clear(cache) ELSE cache
          /\ IF s.done
             THEN InsertReturns(s.errTyp, s.err, evs)
             ELSE /\ pc' = "fcu"
                  /\ trace' = trace \o evs
                  /\ UNCHANGED <<cur, ret>>
    /\ UNCHANGED <<conductor, lastFcu, cache0>>
    /\ UNCHANGED callVars
    /\ UNCHANGED raceVars
    /\ UNCHANGED fc
    /\ UNCHANGED pureVars

\* insertPayload, lines 246-275: the second eng.ForkchoiceUpdate.
InsertForkchoiceUpdate(resp) ==
    /\ pc = "fcu"
    /\ LET s == FcuStep(resp, Envelope.hash)
           post == PostFc(fc, Envelope.hash, updateSafe)
           evs == <<Ev("ForkchoiceUpdate", Envelope.hash, resp)>>
                    \o (IF s.clear THEN <<Ev("Clear", Envelope.hash, "ok")>> ELSE <<>>)
       IN /\ lastFcu' = [fc |-> post, res |-> resp]
          /\ fc' = post
          /\ cache' = IF s.clear THEN Clear(cache) ELSE cache
          /\ InsertReturns(s.errTyp, s.err, evs)
    /\ UNCHANGED <<conductor, cache0>>
    /\ UNCHANGED callVars
    /\ UNCHANGED raceVars
    /\ UNCHANGED pureVars

\* ---------------------------------------------------------------- getPayloadWithBuilderPayload
NoGp == [state |-> "none", envelope |-> NilEnv, builder |-> NilEnv, profit |-> "nil",
         err |-> NoErr]

NoEngRes == [state |-> "pending", env |-> NilEnv, err |-> NoErr]

NoRet == [out |-> NilEnv, errTyp |-> "none", err |-> NoErr]

NoPrev == [called |-> FALSE, errTyp |-> "none", out |-> NilEnv, gossiped |-> FALSE]

\* eng.GetPayload answers with an envelope, or with an error and no envelope
EngineGetPayloadResults ==
    { [state |-> "returned", env |-> e, err |-> NoErr] : e \in EngineEnvelopes }
      \cup { [state |-> "returned", env |-> NilEnv, err |-> Err("getpayload", "-")] }

\* builder.GetPayload answers with (envelope, profit), or with an error
BuilderGetPayloadResults ==
    { [envelope |-> e, profit |-> "profit", err |-> FALSE] : e \in BuilderEnvelopes }
      \cup { [envelope |-> NilEnv, profit |-> "nil", err |-> TRUE] }

\* The cases of the select statement that can proceed.
SelectCases(done, c) ==
    (IF done # "no" THEN {"done"} ELSE {}) \cup (IF Len(c) > 0 THEN {"result"} ELSE {})

\* SelectReturn that returns the context's error from the Done case.
SelectReturnCtxErr(case, er, c) ==
    IF case = "done"
    THEN [state |-> "returned", envelope |-> er.env, builder |-> NilEnv, profit |-> "nil",
          err |-> Err("context canceled", "-")]
    ELSE IF er.env = NilEnv
    THEN [state |-> "panic", envelope |-> NilEnv, builder |-> NilEnv, profit |-> "nil",
          err |-> er.err]
    ELSE [state |-> "returned", envelope |-> er.env,
          builder |-> [c[1].envelope EXCEPT !.root = er.env.root],
          profit |-> c[1].profit, err |-> er.err]

\* What getPayloadWithBuilderPayload returns from the chosen case of the
\* select; state "panic" is the dereference of a nil engine envelope.
SelectReturn(case, er, c) ==
    IF case = "done"
    THEN [state |-> "returned", envelope |-> er.env, builder |-> NilEnv, profit |-> "nil",
          err |-> er.err]
    ELSE IF er.env = NilEnv
    THEN [state |-> "panic", envelope |-> NilEnv, builder |-> NilEnv, profit |-> "nil",
          err |-> er.err]
    ELSE [state |-> "returned", envelope |-> er.env,
          builder |-> [c[1].envelope EXCEPT !.root = er.env.root],
          profit |-> c[1].profit, err |-> er.err]

\* The builder disabled: what getPayloadWithBuilderPayload returns.
DisabledReturn(er) ==
    [state |-> "returned", envelope |-> er.env, builder |-> NilEnv, profit |-> "nil",
     err |-> er.err]

\* confirmPayload, lines 193-209, once getPayloadWithBuilderPayload returned gp.
AfterGetPayload(gp) ==
    IF gp.err # NoErr
    THEN /\ pc' = "returned"
         /\ ret' = [out |-> NilEnv, errTyp |-> BlockInsertTemporaryErr,
                    err |-> Err("failed to get execution payload", "-")]
         /\ cur' = cur
         /\ engineEnvelope' = gp.envelope
         /\ builderEnvelope' = gp.builder
    ELSE /\ pc' = "insert"
         /\ ret' = ret
         /\ cur' = IF gp.builder # NilEnv THEN "builder" ELSE "engine"
         /\ engineEnvelope' = gp.envelope
         /\ builderEnvelope' = gp.builder

\* Whether the last insertPayload call of a trace called Gossip.
RECURSIVE LastAttemptGossiped(_)
LastAttemptGossiped(tr) ==
    IF tr = <<>> THEN FALSE
    ELSE LET e == tr[Len(tr)] IN
         IF e.op = "Gossip" THEN TRUE
         ELSE IF e.op = "Sanity" THEN FALSE
         ELSE LastAttemptGossiped(SubSeq(tr, 1, Len(tr) - 1))

\* Enabled that reports the builder enabled whatever the configuration says.
EnabledAlways(config) == TRUE

\* BuilderAPIClient.Enabled: the configuration's flag.
Enabled(config) == config

\* Reuse that always retrieves a fresh payload.
ReuseNever(cached) == FALSE

\* confirmPayload, line 184: whether the envelope agossip.Get() returned is reused.
Reuse(cached) == cached # NilEnv

\* confirmPayload, lines 181-194: the caller starts a call; agossip.Get()
\* decides between reuse and a fresh retrieval.  A builder goroutine left by
\* an earlier call only holds that call's channel and context and is dropped.
CallConfirmPayload(us) ==
    /\ pc \in {"idle", "returned"}
    /\ ncalls < MaxCalls
    /\ ncalls' = ncalls + 1
    /\ updateSafe' = us
    /\ prev' = IF pc = "idle" THEN NoPrev
               ELSE [called |-> TRUE, errTyp |-> ret.errTyp, out |-> ret.out,
                     gossiped |-> LastAttemptGossiped(trace)]
    /\ ret' = NoRet
    /\ gpRet' = NoGp
    /\ bpc' = IF ~Reuse(Get(cache)) /\ Enabled(builderEnabled) THEN "fetching" ELSE "none"
    /\ ch' = <<>>
    /\ ctxDone' = "no"
    /\ engRes' = NoEngRes
    /\ trace' = <<Ev("Get", Get(cache).hash, "ok")>>
    /\ IF Reuse(Get(cache))
       THEN /\ engineEnvelope' = Get(cache)
            /\ builderEnvelope' = NilEnv
            /\ cur' = "engine"
            /\ pc' = "insert"
       ELSE /\ engineEnvelope' = NilEnv
            /\ builderEnvelope' = NilEnv
            /\ cur' = "engine"
            /\ pc' = IF Enabled(builderEnabled) THEN "race" ELSE "getpayload"
    /\ UNCHANGED <<builderEnabled, cache, conductor, lastFcu, cache0>>
    /\ fc' = CallerFc
    /\ UNCHANGED pureVars

\* getPayloadWithBuilderPayload, lines 125-128: the builder is disabled.
GetPayloadDisabled(er) ==
    /\ pc = "getpayload"
    /\ LET gp == DisabledReturn(er) IN
        /\ gpRet' = gp
        /\ engRes' = er
        /\ trace' = Append(trace, Ev("EngGetPayload", er.env.hash, er.err.kind))
        /\ AfterGetPayload(gp)
    /\ UNCHANGED <<ncalls, builderEnabled, updateSafe, cache, conductor, lastFcu, prev,
                   bpc, ch, ctxDone, cache0>>
    /\ UNCHANGED fc
    /\ UNCHANGED pureVars

\* getPayloadWithBuilderPayload, line 151: eng.GetPayload returns.
RaceEngineGetPayload(er) ==
    /\ pc = "race"
    /\ engRes' = er
    /\ pc' = "select"
    /\ trace' = Append(trace, Ev("EngGetPayload", er.env.hash, er.err.kind))
    /\ UNCHANGED <<ncalls, builderEnabled, updateSafe, cache, conductor, lastFcu,
                   engineEnvelope, builderEnvelope, cur, ret, prev, gpRet, bpc, ch, ctxDone, cache0>>
    /\ UNCHANGED fc
    /\ UNCHANGED pureVars

\* The goroutine of lines 141-149: builder.GetPayload returns; on an error
\* cancel(), otherwise one send on ch.
BuilderGetPayloadReturns(r) ==
    /\ bpc = "fetching"
    /\ r.err \/ Len(ch) < 1
    /\ bpc' = "done"
    /\ ch' = IF r.err THEN ch ELSE Append(ch, r)
    /\ ctxDone' = IF r.err /\ ctxDone = "no" THEN "cancel" ELSE ctxDone
    /\ trace' = Append(trace, Ev("BuilderGetPayload", r.envelope.hash,
                                  IF r.err THEN "err" ELSE "ok"))
    /\ UNCHANGED <<pc, ncalls, builderEnabled, updateSafe, cache, conductor, lastFcu,
                   engineEnvelope, builderEnvelope, cur, ret, prev, gpRet, engRes, cache0>>
    /\ UNCHANGED fc
    /\ UNCHANGED pureVars

\* The 500 ms of ctxTimeout (line 131) elapse while the coordinator runs.
DeadlineElapses ==
    /\ pc \in {"race", "select"}
    /\ ctxDone = "no"
    /\ ctxDone' = "timeout"
    /\ trace' = Append(trace, Ev("Deadline", "-", "timeout"))
    /\ UNCHANGED <<pc, ncalls, builderEnabled, updateSafe, cache, conductor, lastFcu,
                   engineEnvelope, builderEnvelope, cur, ret, prev, gpRet, bpc, ch, engRes, cache0>>
    /\ UNCHANGED fc
    /\ UNCHANGED pureVars

\* getPayloadWithBuilderPayload, lines 154-163: the select takes one of the
\* cases that can proceed; the deferred cancel() runs on return.
Select(case) ==
    /\ pc = "select"
    /\ case \in SelectCases(ctxDone, ch)
    /\ LET gp == SelectReturn(case, engRes, ch) IN
        /\ gpRet' = gp
        /\ ch' = IF case = "result" THEN Tail(ch) ELSE ch
        /\ ctxDone' = IF ctxDone = "no" THEN "cancel" ELSE ctxDone
        /\ trace' = Append(trace, Ev("Select", gp.builder.hash, case))
        /\ IF gp.state = "panic"
           THEN /\ pc' = "crashed"
                /\ UNCHANGED <<ret, cur, engineEnvelope, builderEnvelope>>
           ELSE AfterGetPayload(gp)
    /\ UNCHANGED <<ncalls, builderEnabled, updateSafe, cache, conductor, lastFcu, prev,
                   bpc, engRes, cache0>>
    /\ UNCHANGED fc
    /\ UNCHANGED pureVars

\* ---------------------------------------------------------------- startPayload
\* eth.PayloadID{}, the zero identifier
EmptyID == "0x00"

\* fcRes.PayloadID: a nil pointer, or a pointer to an identifier
PayloadIDs == {"nil", EmptyID, "id1", "id2"}

InputErrorCodes == {"InvalidForkchoiceState", "InvalidPayloadAttributes",
                    "UnknownPayload", "TooLargeRequest"}

PayloadStatuses == {"VALID", "INVALID", "INVALID_BLOCK_HASH", "SYNCING", "ACCEPTED"}

\* what eng.ForkchoiceUpdate(ctx, &fc, attrs) answers: an error that is not
\* an eth.InputError, an eth.InputError with a code, or a result
StartResponses ==
    { [err |-> "transport", code |-> "-", status |-> "-", id |-> "nil"] }
      \cup { [err |-> "input", code |-> c, status |-> "-", id |-> "nil"] : c \in InputErrorCodes }
      \cup { [err |-> "none", code |-> "-", status |-> st, id |-> i] :
                st \in PayloadStatuses, i \in PayloadIDs }

NoStartResponse == [err |-> "-", code |-> "-", status |-> "-", id |-> "nil"]

NoStartOut == [id |-> EmptyID, errTyp |-> "none", err |-> "nil"]

\* startPayload that takes the identifier without the nil check.
startPayloadNoNilCheck(r) ==
    IF r.err = "transport"
    THEN [id |-> EmptyID, errTyp |-> BlockInsertTemporaryErr, err |-> "failed to create new block"]
    ELSE IF r.err = "input"
    THEN IF r.code = "InvalidForkchoiceState"
         THEN [id |-> EmptyID, errTyp |-> BlockInsertPrestateErr, err |-> "inconsistent forkchoice"]
         ELSE IF r.code = "InvalidPayloadAttributes"
         THEN [id |-> EmptyID, errTyp |-> BlockInsertPayloadErr, err |-> "invalid attributes"]
         ELSE [id |-> EmptyID, errTyp |-> BlockInsertPrestateErr, err |-> "unexpected error code"]
    ELSE IF r.status = "INVALID" \/ r.status = "INVALID_BLOCK_HASH"
    THEN [id |-> EmptyID, errTyp |-> BlockInsertPayloadErr, err |-> "status " \o r.status]
    ELSE IF r.status = "VALID"
    THEN [id |-> IF r.id = "nil" THEN EmptyID ELSE r.id, errTyp |-> BlockInsertOK, err |-> "nil"]
    ELSE [id |-> EmptyID, errTyp |-> BlockInsertTemporaryErr, err |-> "status " \o r.status]

\* startPayload that does not tell the input error codes apart.
startPayloadOneCode(r) ==
    IF r.err = "transport"
    THEN [id |-> EmptyID, errTyp |-> BlockInsertTemporaryErr, err |-> "failed to create new block"]
    ELSE IF r.err = "input"
    THEN [id |-> EmptyID, errTyp |-> BlockInsertPrestateErr, err |-> "inconsistent forkchoice"]
    ELSE IF r.status = "INVALID" \/ r.status = "INVALID_BLOCK_HASH"
    THEN [id |-> EmptyID, errTyp |-> BlockInsertPayloadErr, err |-> "status " \o r.status]
    ELSE IF r.status = "VALID"
    THEN IF r.id = "nil"
         THEN [id |-> EmptyID, errTyp |-> BlockInsertTemporaryErr, err |-> "nil id"]
         ELSE [id |-> r.id, errTyp |-> BlockInsertOK, err |-> "nil"]
    ELSE [id |-> EmptyID, errTyp |-> BlockInsertTemporaryErr, err |-> "status " \o r.status]

\* startPayload: (id, errType, err) from the engine's answer r.
startPayload(r) ==
    IF r.err = "transport"
    THEN [id |-> EmptyID, errTyp |-> BlockInsertTemporaryErr, err |-> "failed to create new block"]
    ELSE IF r.err = "input"
    THEN IF r.code = "InvalidForkchoiceState"
         THEN [id |-> EmptyID, errTyp |-> BlockInsertPrestateErr, err |-> "inconsistent forkchoice"]
         ELSE IF r.code = "InvalidPayloadAttributes"
         THEN [id |-> EmptyID, errTyp |-> BlockInsertPayloadErr, err |-> "invalid attributes"]
         ELSE [id |-> EmptyID, errTyp |-> BlockInsertPrestateErr, err |-> "unexpected error code"]
    ELSE IF r.status = "INVALID" \/ r.status = "INVALID_BLOCK_HASH"
    THEN [id |-> EmptyID, errTyp |-> BlockInsertPayloadErr, err |-> "status " \o r.status]
    ELSE IF r.status = "VALID"
    THEN IF r.id = "nil"
         THEN [id |-> EmptyID, errTyp |-> BlockInsertTemporaryErr, err |-> "nil id"]
         ELSE [id |-> r.id, errTyp |-> BlockInsertOK, err |-> "nil"]
    ELSE [id |-> EmptyID, errTyp |-> BlockInsertTemporaryErr, err |-> "status " \o r.status]

\* the caller runs startPayload
StartPayload ==
    /\ spOut = NoStartOut
    /\ spOut' = startPayload(spIn)
    /\ UNCHANGED <<spIn, scTxs, scOut>>
    /\ UNCHANGED mainVars

\* the transaction lists of at most n transactions
RECURSIVE TxLists(_)
TxLists(n) ==
    IF n = 0 THEN { <<>> }
    ELSE TxLists(n - 1) \cup { Append(t, x) : t \in TxLists(n - 1), x \in {"D", "N", "E"} }

\* the caller runs sanityCheckPayload
SanityCheckPayload ==
    /\ scOut = "none"
    /\ scOut' = sanityCheckPayload(scTxs)
    /\ UNCHANGED <<spIn, spOut, scTxs>>
    /\ UNCHANGED mainVars

\* ---------------------------------------------------------------- specification
InitMain ==
    /\ pc = "idle"
    /\ ncalls = 0
    /\ builderEnabled \in BOOLEAN
    /\ updateSafe = FALSE
    /\ cache = NilEnv
    /\ conductor = {}
    /\ lastFcu = [fc |-> CallerFc, res |-> "none"]
    /\ engineEnvelope = NilEnv
    /\ builderEnvelope = NilEnv
    /\ cur = "engine"
    /\ trace = <<>>
    /\ ret = NoRet
    /\ prev = NoPrev
    /\ gpRet = NoGp
    /\ bpc = "none"
    /\ ch = <<>>
    /\ ctxDone = "no"
    /\ engRes = NoEngRes
    /\ cache0 = NilEnv
    /\ fc = CallerFc

Init ==
    /\ InitMain
    /\ spIn = NoStartResponse
    /\ spOut = NoStartOut
    /\ scTxs = <<>>
    /\ scOut = "none"

Next ==
    \/ \E us \in BOOLEAN : CallConfirmPayload(us)
    \/ \E er \in EngineGetPayloadResults : GetPayloadDisabled(er)
    \/ \E er \in EngineGetPayloadResults : RaceEngineGetPayload(er)
    \/ \E r \in BuilderGetPayloadResults : BuilderGetPayloadReturns(r)
    \/ DeadlineElapses
    \/ \E case \in {"done", "result"} : Select(case)
    \/ InsertSanity
    \/ \E ok \in BOOLEAN : InsertCommit(ok)
    \/ \E resp \in NewPayloadResponses : InsertNewPayload(resp)
    \/ \E resp \in FcuResponses : InsertForkchoiceUpdate(resp)

Spec == Init /\ [][Next]_vars

\* startPayload and sanityCheckPayload on their own, for every input
InitPure ==
    /\ InitMain
    /\ spIn \in StartResponses
    /\ spOut = NoStartOut
    /\ scTxs \in TxLists(MaxTxs)
    /\ scOut = "none"

NextPure ==
    \/ StartPayload
    \/ SanityCheckPayload

PureSpec == InitPure /\ [][NextPure]_vars

\* ---------------------------------------------------------------- properties
IsMainEvent(e) == e.op # "BuilderGetPayload"

\* the calls of the task that runs confirmPayload, without the goroutine's
MainTrace == SelectSeq(trace, IsMainEvent)

IsInsertReturn(e) == e.op = "InsertReturn"

InsertReturnsOf == SelectSeq(trace, IsInsertReturn)

HasEvent(op) == \E i \in 1..Len(trace) : trace[i].op = op

\* insertPayload has just returned to confirmPayload
JustReturned == Len(trace) > 0 /\ trace[Len(trace)].op = "InsertReturn"

LastReturn == trace[Len(trace)]

\* the envelope of the insertPayload call that has just returned
ReturnedEnvelope ==
    IF builderEnvelope.hash = LastReturn.hash THEN builderEnvelope ELSE engineEnvelope

\* C1: within an insertPayload call, CommitUnsafePayload comes right after a
\* successful validation, Gossip right after a successful commit of the same
\* envelope, NewPayload right after the Gossip of it, and the second
\* ForkchoiceUpdate right after a NewPayload that answered valid for it.
C1_CallOrder ==
    LET m == MainTrace IN
    \A i \in 1..Len(m) :
        /\ m[i].op = "Commit" => i > 1 /\ m[i - 1] = Ev("Sanity", m[i].hash, "ok")
        /\ m[i].op = "Gossip" => i > 1 /\ m[i - 1] = Ev("Commit", m[i].hash, "ok")
        /\ m[i].op = "NewPayload" => i > 1 /\ m[i - 1] = Ev("Gossip", m[i].hash, "ok")
        /\ m[i].op = "ForkchoiceUpdate" => i > 1 /\ m[i - 1] = Ev("NewPayload", m[i].hash, "VALID")

C1_Witness ==
    /\ HasEvent("ForkchoiceUpdate")
    /\ \E i \in 1..Len(trace) : trace[i] = Ev("Commit", "hB", "fail")
    /\ \E i \in 1..Len(trace) : trace[i] = Ev("NewPayload", "hE", "VALID")

\* C2: when confirmPayload returns OK, the conductor holds the returned
\* envelope, the gossip cache is empty, and the last forkchoice update the
\* engine received has the returned envelope's block hash as head and was
\* answered valid.
C2_OnOK ==
    (pc = "returned" /\ ret.errTyp = BlockInsertOK) =>
        /\ ret.out # NilEnv
        /\ ret.out \in conductor
        /\ cache = NilEnv
        /\ lastFcu.fc.head = ret.out.hash
        /\ lastFcu.res = "VALID"

C2_Witness ==
    /\ pc = "returned"
    /\ ret.errTyp = BlockInsertOK
    /\ ret.out.hash = "hB"
    /\ ncalls = 2

\* C3 as stated: an insertPayload call that returns TemporaryErr or
\* PrestateErr after it called Gossip leaves its envelope in the gossip cache.
C3_Original ==
    (/\ JustReturned
     /\ LastReturn.res \in {BlockInsertTemporaryErr, BlockInsertPrestateErr}
     /\ LastAttemptGossiped(trace))
        => cache = ReturnedEnvelope

\* C3 amended: an insertPayload call that returns TemporaryErr after it called
\* Gossip leaves its envelope in the gossip cache; one that returns
\* PrestateErr has cleared the cache.
C3_Amended ==
    JustReturned =>
        /\ (LastReturn.res = BlockInsertTemporaryErr /\ LastAttemptGossiped(trace))
              => cache = ReturnedEnvelope
        /\ LastReturn.res = BlockInsertPrestateErr
              => (cache = NilEnv /\ trace[Len(trace) - 1].op = "Clear")

C3_Witness ==
    /\ JustReturned
    /\ LastReturn.res = BlockInsertTemporaryErr
    /\ LastAttemptGossiped(trace)
    /\ cache # NilEnv
    /\ cache = ReturnedEnvelope

\* C4: after an insertPayload call, and after a confirmPayload call, that
\* returns OK or PayloadErr, the gossip cache is empty.
C4_Claim ==
    /\ (JustReturned /\ LastReturn.res \in {BlockInsertOK, BlockInsertPayloadErr})
          => cache = NilEnv
    /\ (pc = "returned" /\ ret.errTyp \in {BlockInsertOK, BlockInsertPayloadErr})
          => cache = NilEnv

\* the events of the last insertPayload call of the running confirmPayload call
RECURSIVE LastAttempt(_)
LastAttempt(tr) ==
    IF tr = <<>> THEN <<>>
    ELSE IF tr[Len(tr)].op = "Sanity" THEN <<tr[Len(tr)]>>
    ELSE LastAttempt(SubSeq(tr, 1, Len(tr) - 1)) \o <<tr[Len(tr)]>>

AttemptHas(op) == \E i \in 1..Len(LastAttempt(MainTrace)) : LastAttempt(MainTrace)[i].op = op

\* the insertPayload call that has just returned failed at CommitUnsafePayload
CommitFailed ==
    /\ JustReturned
    /\ \E i \in 1..Len(LastAttempt(MainTrace)) :
          LastAttempt(MainTrace)[i] = Ev("Commit", LastReturn.hash, "fail")

\* C5 as stated: an insertPayload call that fails at CommitUnsafePayload
\* returns TemporaryErr, calls neither Gossip nor NewPayload, and the gossip
\* cache is empty when it returns.
C5_Original ==
    CommitFailed =>
        /\ LastReturn.res = BlockInsertTemporaryErr
        /\ ~AttemptHas("Gossip")
        /\ ~AttemptHas("NewPayload")
        /\ cache = NilEnv

\* C5 amended: an insertPayload call that fails at CommitUnsafePayload
\* returns TemporaryErr, calls neither Gossip nor NewPayload, and leaves the
\* gossip cache as it was when the call began (empty only if it was empty).
C5_Amended ==
    CommitFailed =>
        /\ LastReturn.res = BlockInsertTemporaryErr
        /\ ~AttemptHas("Gossip")
        /\ ~AttemptHas("NewPayload")
        /\ cache = cache0

C5_Witness ==
    /\ CommitFailed
    /\ cache # NilEnv
    /\ cache = engineEnvelope
    /\ prev.called

InvalidStatus == {"INVALID", "INVALID_BLOCK_HASH"}

\* C6: when NewPayload answers invalid or invalid-block-hash, insertPayload
\* clears the gossip cache and returns PayloadErr without a second
\* ForkchoiceUpdate, and the cache is empty when it returns.
C6_InvalidNewPayload ==
    /\ \A i \in 1..Len(trace) :
          (trace[i].op = "NewPayload" /\ trace[i].res \in InvalidStatus) =>
              /\ i + 2 <= Len(trace)
              /\ trace[i + 1] = Ev("Clear", trace[i].hash, "ok")
              /\ trace[i + 2].op = "InsertReturn"
              /\ trace[i + 2].hash = trace[i].hash
              /\ trace[i + 2].res = BlockInsertPayloadErr
    /\ (/\ JustReturned
        /\ \E i \in 1..Len(trace) - 1 :
              /\ trace[i].op = "NewPayload"
              /\ trace[i].res \in InvalidStatus
              /\ \A j \in (i + 1)..(Len(trace) - 1) : trace[j].op = "Clear")
          => cache = NilEnv

C6_Witness ==
    /\ JustReturned
    /\ Len(trace) > 3
    /\ trace[Len(trace) - 2] = Ev("NewPayload", "hE", "INVALID_BLOCK_HASH")
    /\ cache0 # NilEnv
    /\ cache = NilEnv

IsSanity(e) == e.op = "Sanity"

\* C7: with a builder envelope, confirmPayload inserts the builder envelope
\* first; if that succeeds it returns the builder envelope with OK and the
\* engine envelope is not inserted; if it fails, the engine envelope is
\* inserted and the caller gets the engine insertion's severity and error.
C7_BuilderFirst ==
    (gpRet.state = "returned" /\ gpRet.builder # NilEnv) =>
        LET rets == InsertReturnsOf
            sanities == SelectSeq(trace, IsSanity)
        IN /\ Len(sanities) >= 1 => sanities[1].hash = builderEnvelope.hash
           /\ Len(rets) >= 1 => rets[1].hash = builderEnvelope.hash
           /\ pc = "returned" => Len(rets) >= 1
           /\ (Len(rets) >= 1 /\ rets[1].err = NoErr) =>
                 /\ pc = "returned"
                 /\ ret = [out |-> builderEnvelope, errTyp |-> BlockInsertOK, err |-> NoErr]
                 /\ Len(rets) = 1
                 /\ Len(sanities) = 1
           /\ (Len(rets) >= 1 /\ rets[1].err # NoErr) =>
                 /\ Len(rets) = 1 => pc \in {"insert", "commit", "newpayload", "fcu", "crashed"}
                 /\ Len(sanities) >= 2 => sanities[2].hash = engineEnvelope.hash
                 /\ pc = "returned" =>
                       /\ Len(rets) = 2
                       /\ rets[2].hash = engineEnvelope.hash
                       /\ ret = [out |-> engineEnvelope, errTyp |-> rets[2].res,
                                 err |-> rets[2].err]
                       /\ ret.err # rets[1].err

C7_Witness ==
    /\ pc = "returned"
    /\ gpRet.builder # NilEnv
    /\ Len(InsertReturnsOf) = 2
    /\ InsertReturnsOf[1].res = BlockInsertPayloadErr
    /\ ret.errTyp = BlockInsertTemporaryErr
    /\ ret.out.hash = "hE"

InsertOps == {"Sanity", "Commit", "Gossip", "NewPayload", "ForkchoiceUpdate"}

\* C8: when confirmPayload returns TemporaryErr and its last insertPayload
\* call had begun gossip, the envelope is still in the gossip cache; the next
\* confirmPayload call inserts that envelope, calls neither GetPayload, and
\* returns OK with that envelope if NewPayload and ForkchoiceUpdate answer valid.
C8_RetryByReuse ==
    /\ (pc = "returned" /\ ret.errTyp = BlockInsertTemporaryErr /\ LastAttemptGossiped(trace))
          => (cache = ret.out /\ cache # NilEnv)
    /\ (prev.called /\ prev.errTyp = BlockInsertTemporaryErr /\ prev.gossiped) =>
          /\ engineEnvelope = prev.out
          /\ builderEnvelope = NilEnv
          /\ pc \notin {"getpayload", "race", "select"}
          /\ bpc = "none"
          /\ gpRet = NoGp
          /\ ~HasEvent("EngGetPayload")
          /\ ~HasEvent("BuilderGetPayload")
          /\ \A i \in 1..Len(trace) :
                trace[i].op \in InsertOps => trace[i].hash = prev.out.hash
          /\ (/\ pc = "returned"
              /\ \E i \in 1..Len(trace) : trace[i] = Ev("NewPayload", prev.out.hash, "VALID")
              /\ \E i \in 1..Len(trace) : trace[i] = Ev("ForkchoiceUpdate", prev.out.hash, "VALID"))
                => (ret.errTyp = BlockInsertOK /\ ret.out = prev.out)

C8_Witness ==
    /\ prev.called
    /\ prev.errTyp = BlockInsertTemporaryErr
    /\ prev.gossiped
    /\ prev.out.hash = "hE"
    /\ pc = "returned"
    /\ ret.errTyp = BlockInsertOK
    /\ ret.out = prev.out

\* getPayloadWithBuilderPayload ran the race and is no longer running
RaceOver ==
    /\ HasEvent("EngGetPayload")
    /\ builderEnabled
    /\ pc \notin {"race", "select"}

\* the builder fetch returned an envelope before the deadline elapsed
BuilderInTime ==
    \E i \in 1..Len(trace) :
        /\ trace[i].op = "BuilderGetPayload"
        /\ trace[i].res = "ok"
        /\ \A j \in 1..(i - 1) : trace[j].op # "Deadline"

\* the deadline elapsed before the builder fetch returned
DeadlineFirst ==
    \E i \in 1..Len(trace) :
        /\ trace[i].op = "Deadline"
        /\ \A j \in 1..(i - 1) : trace[j].op # "BuilderGetPayload"

\* C9: if the builder fetch returns an envelope before the deadline elapses
\* (here with an engine fetch that returned an envelope),
\* getPayloadWithBuilderPayload returns the engine envelope and the builder
\* envelope, however late the engine fetch returns.
C9_Claim ==
    (RaceOver /\ BuilderInTime /\ engRes.err = NoErr) =>
        /\ gpRet.state = "returned"
        /\ gpRet.envelope = engRes.env
        /\ gpRet.builder # NilEnv

\* C10: if the deadline elapses before the builder fetch returns,
\* getPayloadWithBuilderPayload returns no builder envelope, also when the
\* builder fetch returns an envelope while the engine fetch is still awaited.
C10_Claim ==
    (RaceOver /\ DeadlineFirst) => gpRet.builder = NilEnv

\* the select took the case that receives the builder's result
ResultReceived == \E i \in 1..Len(trace) : trace[i].op = "Select" /\ trace[i].res = "result"

\* C11: when getPayloadWithBuilderPayload receives the builder's result it
\* returns the builder envelope with the engine envelope's parent beacon
\* root, whatever the engine fetch returned (also when it failed).
C11_Claim ==
    ResultReceived =>
        /\ gpRet.state = "returned"
        /\ gpRet.builder # NilEnv
        /\ gpRet.builder.root = engRes.env.root

\* the builder fetch of the running call returned an error
BuilderFailed ==
    \E i \in 1..Len(trace) : trace[i].op = "BuilderGetPayload" /\ trace[i].res = "err"

\* C12: when builder.GetPayload returns an error, ctxTimeout is done, nothing
\* is sent on ch, and getPayloadWithBuilderPayload returns the engine
\* envelope, no builder envelope, no profit, and the engine fetch's error.
C12_BuilderError ==
    BuilderFailed =>
        /\ ctxDone # "no"
        /\ ch = <<>>
        /\ bpc = "done"
        /\ ~ResultReceived
        /\ RaceOver =>
              gpRet = [state |-> "returned", envelope |-> engRes.env, builder |-> NilEnv,
                       profit |-> "nil", err |-> engRes.err]

C12_Witness ==
    /\ BuilderFailed
    /\ RaceOver
    /\ ctxDone = "cancel"
    /\ gpRet.state = "returned"
    /\ gpRet.envelope.hash = "hE"
    /\ gpRet.err = NoErr
    /\ ~HasEvent("Deadline")

IsEngGetPayload(e) == e.op = "EngGetPayload"

\* C13: with the builder disabled, getPayloadWithBuilderPayload starts no
\* goroutine and no deadline, never calls the builder, calls eng.GetPayload
\* once and returns its envelope and error with no builder envelope and no
\* profit.
C13_BuilderDisabled ==
    ~builderEnabled =>
        /\ bpc = "none"
        /\ ch = <<>>
        /\ ctxDone = "no"
        /\ pc \notin {"race", "select"}
        /\ ~HasEvent("BuilderGetPayload")
        /\ ~HasEvent("Deadline")
        /\ ~HasEvent("Select")
        /\ Len(SelectSeq(trace, IsEngGetPayload)) <= 1
        /\ gpRet.state # "none" =>
              /\ Len(SelectSeq(trace, IsEngGetPayload)) = 1
              /\ engRes.state = "returned"
              /\ gpRet = [state |-> "returned", envelope |-> engRes.env, builder |-> NilEnv,
                          profit |-> "nil", err |-> engRes.err]

C13_Witness ==
    /\ ~builderEnabled
    /\ gpRet.state = "returned"
    /\ gpRet.envelope.hash = "hE"
    /\ pc = "returned"
    /\ ret.errTyp = BlockInsertOK

\* startPayload has returned
Started == spOut.errTyp # "none"

\* C14 as stated: startPayload returns TemporaryErr for a transport failure,
\* for an input error whose code is neither invalid-forkchoice-state nor
\* invalid-payload-attributes, for a status other than valid, invalid and
\* invalid-block-hash, and for a valid status without a payload identifier.
C14_Original ==
    Started =>
        /\ spIn.err = "transport" => spOut.errTyp = BlockInsertTemporaryErr
        /\ (/\ spIn.err = "input"
            /\ spIn.code \notin {"InvalidForkchoiceState", "InvalidPayloadAttributes"})
              => spOut.errTyp = BlockInsertTemporaryErr
        /\ (spIn.err = "none" /\ spIn.status \notin {"VALID", "INVALID", "INVALID_BLOCK_HASH"})
              => spOut.errTyp = BlockInsertTemporaryErr
        /\ (spIn.err = "none" /\ spIn.status = "VALID" /\ spIn.id = "nil")
              => spOut.errTyp = BlockInsertTemporaryErr

\* C14 amended: as stated, except that an input error whose code is neither
\* invalid-forkchoice-state nor invalid-payload-attributes gives PrestateErr.
C14_Amended ==
    Started =>
        /\ spIn.err = "transport" => spOut.errTyp = BlockInsertTemporaryErr
        /\ (/\ spIn.err = "input"
            /\ spIn.code \notin {"InvalidForkchoiceState", "InvalidPayloadAttributes"})
              => spOut.errTyp = BlockInsertPrestateErr
        /\ (spIn.err = "none" /\ spIn.status \notin {"VALID", "INVALID", "INVALID_BLOCK_HASH"})
              => spOut.errTyp = BlockInsertTemporaryErr
        /\ (spIn.err = "none" /\ spIn.status = "VALID" /\ spIn.id = "nil")
              => spOut.errTyp = BlockInsertTemporaryErr
        /\ spOut.errTyp \in {BlockInsertTemporaryErr, BlockInsertPrestateErr}
              => (spOut.id = EmptyID /\ spOut.err # "nil")

C14_Witness ==
    /\ Started
    /\ spIn.err = "none"
    /\ spIn.status = "VALID"
    /\ spIn.id = "nil"
    /\ spOut.errTyp = BlockInsertTemporaryErr

\* C15: startPayload gives PrestateErr for the code invalid-forkchoice-state,
\* PayloadErr for the code invalid-payload-attributes and for the statuses
\* invalid and invalid-block-hash, and OK with the engine's identifier for a
\* valid status with an identifier; OK goes with no error and only OK with a
\* non-empty identifier.
C15_Classification ==
    Started =>
        /\ (spIn.err = "input" /\ spIn.code = "InvalidForkchoiceState")
              => spOut.errTyp = BlockInsertPrestateErr
        /\ (spIn.err = "input" /\ spIn.code = "InvalidPayloadAttributes")
              => spOut.errTyp = BlockInsertPayloadErr
        /\ (spIn.err = "none" /\ spIn.status \in {"INVALID", "INVALID_BLOCK_HASH"})
              => spOut.errTyp = BlockInsertPayloadErr
        /\ (spIn.err = "none" /\ spIn.status = "VALID" /\ spIn.id # "nil")
              => (spOut.errTyp = BlockInsertOK /\ spOut.id = spIn.id)
        /\ spOut.errTyp = BlockInsertOK <=> spOut.err = "nil"
        /\ spOut.id # EmptyID => spOut.errTyp = BlockInsertOK

C15_Witness ==
    /\ Started
    /\ spIn.status = "VALID"
    /\ spOut.errTyp = BlockInsertOK
    /\ spOut.id = "id2"

\* what the validator is to accept: a non-empty list that starts with a
\* deposit, has no undecodable transaction and no deposit after a non-deposit
Accepted(txns) ==
    /\ Len(txns) > 0
    /\ txns[1] = "D"
    /\ \A i \in 1..Len(txns) : txns[i] # "E"
    /\ \A i \in 1..Len(txns) : \A j \in 1..Len(txns) :
          (i < j /\ txns[i] = "N") => txns[j] # "D"

\* C16: sanityCheckPayload returns success or a validation error for every
\* list of deposit, non-deposit and empty transactions, and success exactly
\* for the accepted lists.
C16_Claim ==
    scOut # "none" =>
        /\ scOut \in {"ok", "err"}
        /\ scOut = "ok" <=> Accepted(scTxs)

IsFcu(e) == e.op = "ForkchoiceUpdate"

\* the second ForkchoiceUpdate calls of the running confirmPayload call
FcuCalls == SelectSeq(trace, IsFcu)

\* C17: the forkchoice state of the second ForkchoiceUpdate is the caller's
\* with the head set to the payload's block hash and, exactly when updateSafe
\* holds, the safe hash too; the finalized hash is the caller's; and every
\* insertPayload call, a fallback included, works on the caller's state.
C17_ForkchoiceFrame ==
    /\ pc \in {"commit", "newpayload", "fcu"} => fc = CallerFc
    /\ Len(FcuCalls) > 0 =>
          LET h == FcuCalls[Len(FcuCalls)].hash IN
          /\ lastFcu.fc.head = h
          /\ lastFcu.fc.safe = (IF updateSafe THEN h ELSE CallerFc.safe)
          /\ lastFcu.fc.finalized = CallerFc.finalized
          /\ h \in {"hE", "hB"}

C17_Witness ==
    /\ Len(FcuCalls) = 2
    /\ FcuCalls[1].hash = "hB"
    /\ ~updateSafe
    /\ lastFcu.fc = [head |-> "hE", safe |-> "s0", finalized |-> "f0"]

\* eng.GetPayload failed in the running confirmPayload call
EngineFetchFailed ==
    \E i \in 1..Len(trace) : trace[i].op = "EngGetPayload" /\ trace[i].res # "nil"

\* C18: with an empty gossip cache and a failed eng.GetPayload, confirmPayload
\* returns no envelope, TemporaryErr and the engine's error, and calls none of
\* CommitUnsafePayload, Gossip, NewPayload and ForkchoiceUpdate, whatever the
\* builder fetch did.
C18_Claim ==
    (EngineFetchFailed /\ pc \notin {"getpayload", "race", "select"}) =>
        /\ pc = "returned"
        /\ ret = [out |-> NilEnv, errTyp |-> BlockInsertTemporaryErr,
                  err |-> Err("failed to get execution payload", "-")]
        /\ \A i \in 1..Len(trace) : trace[i].op \notin InsertOps

\* the values the builder goroutine sent on ch in the running call
BuilderSends ==
    SelectSeq(trace, LAMBDA e : e.op = "BuilderGetPayload" /\ e.res = "ok")

\* C19: with the builder enabled, the builder goroutine sends at most one
\* value on ch, its send finds the slot of ch free (so it ends when the
\* builder fetch returns), the select always has a case that can proceed or
\* a deadline still to elapse, and once eng.GetPayload returned and the
\* select has run, getPayloadWithBuilderPayload has returned.
C19_Claim ==
    builderEnabled =>
        /\ Len(BuilderSends) <= 1
        /\ Len(ch) <= 1
        /\ bpc = "fetching" => Len(ch) < 1
        /\ pc = "select" => (SelectCases(ctxDone, ch) # {} \/ ENABLED DeadlineElapses)
        /\ RaceOver => gpRet.state = "returned"

\* the CommitUnsafePayload calls of the running confirmPayload call
CommitCalls == SelectSeq(trace, LAMBDA e : e.op = "Commit")

\* C20: a confirmPayload call that returns OK called CommitUnsafePayload
\* exactly once, with the envelope it returns, and committed no other
\* envelope to the conductor.
C20_Claim ==
    (pc = "returned" /\ ret.errTyp = BlockInsertOK) =>
        /\ Len(CommitCalls) = 1
        /\ CommitCalls[1].hash = ret.out.hash
        /\ CommitCalls[1].res = "ok"

====
